---- MODULE Spec2Model ----
(***************************************************************************)
(* PathoMetrics dashboard (src/app.py): a dataset loaded once at import,   *)
(* a fixed table of healthy ranges, a layout holding summary statistics,   *)
(* and three Dash callbacks run by the server's workers.                   *)
(*                                                                         *)
(* Numbers.  Hemoglobin and white blood cell count, which the source      *)
(* writes with one decimal, are fixed-point: the integer n stands for n/10 *)
(* (12.0 g/dL is 120, 16.5 is 165).  Platelet count, cholesterol and age   *)
(* are whole numbers, as the source writes them.  Regression parameters    *)
(* and trendline samples are exact rationals <<num, den>> in lowest terms  *)
(* with den > 0; floating-point rounding error is not modelled.            *)
(*                                                                         *)
(* Optional values.  A Python value that may be None is a sequence of      *)
(* length 0 (None) or 1 (the value).  A text is a sequence of characters.  *)
(***************************************************************************)
EXTENDS Integers, Sequences, FiniteSets, TLC

VARIABLES df, numeric_columns, healthy_ranges, layout, pc, call, ret

vars == <<df, numeric_columns, healthy_ranges, layout, pc, call, ret>>

shared == <<df, numeric_columns, healthy_ranges>>

-----------------------------------------------------------------------------
(* Bounds of the model *)

\* most rows in the loaded spreadsheet, with one worker serving
MaxRows == 3

\* most rows in the loaded spreadsheet, with two workers serving
MaxRowsConcurrent == 1

\* most clicks of the search button a request reports
MaxClicks == 1

\* largest size of an intercept or slope the round-trip property is tried with
MaxCoef == 3

-----------------------------------------------------------------------------
(* Python values *)

None == <<>>

Some(v) == <<v>>

\* Python truthiness of an optional integer: None and 0 are falsy
TruthyInt(opt) == opt # None /\ opt[1] # 0

\* Python truthiness of an optional text: None and "" are falsy
TruthyText(opt) == opt # None /\ opt[1] # <<>>

-----------------------------------------------------------------------------
(***************************************************************************)
(* Column names.  The source spells the unit of the two cell counts with  *)
(* a micro sign, written u here.                                          *)
(***************************************************************************)

ColID == "Patient ID"

ColAge == "Age"

ColGender == "Gender"

Hgb == "Hemoglobin (g/dL)"

Wbc == "White Blood Cell Count (10^3/uL)"

Plt == "Platelet Count (10^3/uL)"

Chol == "Cholesterol (mg/dL)"

\* src/app.py:14
numeric_columns_literal == <<Hgb, Wbc, Plt, Chol>>

\* a table that lacks the entry of the last dropdown option
healthy_ranges_without_cholesterol ==
    << <<Hgb, <<120, 165>> >>,
       <<Wbc, <<45, 110>> >>,
       <<Plt, <<150, 450>> >> >>

\* src/app.py:20-25, the dict display in source order
healthy_ranges_literal ==
    << <<Hgb, <<120, 165>> >>,
       <<Wbc, <<45, 110>> >>,
       <<Plt, <<150, 450>> >>,
       <<Chol, <<0, 200>> >> >>

\* a Python dict display: a later entry for a key replaces an earlier one
RECURSIVE DictOf(_)
DictOf(items) ==
    IF items = <<>> THEN <<>>
    ELSE LET n    == Len(items)
             rest == DictOf(SubSeq(items, 1, n - 1))
             k    == items[n][1]
         IN  (k :> items[n][2]) @@ rest

-----------------------------------------------------------------------------
(* The spreadsheet: rows the loader may deliver *)

Row(id, age, gender, hgb, wbc, plt, chol) ==
    (ColID :> id) @@ (ColAge :> age) @@ (ColGender :> gender) @@
    (Hgb :> hgb) @@ (Wbc :> wbc) @@ (Plt :> plt) @@ (Chol :> chol)

IdP1 == <<"P", "1">>

IdP10 == <<"P", "1", "0">>

IdP2 == <<"P", "2">>

RowPool ==
    { Row(IdP1,  34, "F", 119,  45, 137,   0),
      Row(IdP1,  52, "M", 120, 111, 335,   0),
      Row(IdP10, 52, "F", 165, 110, 332, 200),
      Row(IdP2,  47, "M", 166,  44, 134, 201) }

RECURSIVE SeqsUpTo(_, _)
SeqsUpTo(S, n) ==
    IF n = 0 THEN { <<>> }
    ELSE LET shorter == SeqsUpTo(S, n - 1)
         IN  shorter \cup { Append(s, r) : s \in { t \in shorter : Len(t) = n - 1 }, r \in S }

Datasets(n) == SeqsUpTo(RowPool, n)

-----------------------------------------------------------------------------
(* Range classifier *)

\* a classifier that excludes the two ends of the interval
is_within_open_range(value, parameter) ==
    LET min_range == healthy_ranges[parameter][1]
        max_range == healthy_ranges[parameter][2]
    IN  min_range < value /\ value < max_range

is_within_healthy_range(value, parameter) ==
    LET min_range == healthy_ranges[parameter][1]
        max_range == healthy_ranges[parameter][2]
    IN  min_range <= value /\ value <= max_range

-----------------------------------------------------------------------------
(* HTML components *)

NoStyle == {}

RedStyle == { <<"color", "red">> }

\* html.P(children, style=style); children is a message text, or the pair
\* <<label, value>> standing for the f-string "{label}: {value}"
P(children, style) == [children |-> children, style |-> style]

-----------------------------------------------------------------------------
(* pandas Series helpers *)

Column(d, name) == [i \in 1..Len(d) |-> d[i][name]]

RECURSIVE Sum(_)
Sum(s) == IF s = <<>> THEN 0 ELSE s[1] + Sum(Tail(s))

Products(s, t) == [i \in 1..Len(s) |-> s[i] * t[i]]

Range(s) == { s[i] : i \in 1..Len(s) }

SeqMin(s) == CHOOSE m \in Range(s) : \A v \in Range(s) : m <= v

SeqMax(s) == CHOOSE m \in Range(s) : \A v \in Range(s) : v <= m

\* the k-th smallest element of s, counting from 1
KthSmallest(s, k) ==
    CHOOSE v \in Range(s) :
        /\ Cardinality({ i \in 1..Len(s) : s[i] < v }) < k
        /\ Cardinality({ i \in 1..Len(s) : s[i] <= v }) >= k

-----------------------------------------------------------------------------
(* Summary statistics shown in the layout, formatted with :.2f *)

NaN == [nan |-> TRUE, hundredths |-> 0]

Num(h) == [nan |-> FALSE, hundredths |-> h]

\* the non-negative rational num/den rounded to an integer, ties to even
RoundHalfEven(num, den) ==
    LET q == num \div den
        r == num % den
    IN  IF 2 * r < den THEN q
        ELSE IF 2 * r > den THEN q + 1
        ELSE IF q % 2 = 0 THEN q ELSE q + 1

\* the largest r in lo..hi with (2r-1)^2 <= q: sqrt(q/4) rounded to an integer
RECURSIVE RoundSqrt(_, _, _)
RoundSqrt(lo, hi, q) ==
    IF lo = hi THEN lo
    ELSE LET mid == (lo + hi + 1) \div 2
         IN  IF (2 * mid - 1) * (2 * mid - 1) <= q
             THEN RoundSqrt(mid, hi, q)
             ELSE RoundSqrt(lo, mid - 1, q)

\* Series.nunique()
nunique(s) == Cardinality(Range(s))

\* f"{Series.mean():.2f}" of a column of whole numbers
mean_2f(s) ==
    IF Len(s) = 0 THEN NaN
    ELSE Num(RoundHalfEven(100 * Sum(s), Len(s)))

\* f"{Series.median():.2f}" of a column in tenths
median_2f(s) ==
    LET n == Len(s)
    IN  IF n = 0 THEN NaN
        ELSE IF n % 2 = 1 THEN Num(10 * KthSmallest(s, (n + 1) \div 2))
        ELSE Num(5 * (KthSmallest(s, n \div 2) + KthSmallest(s, n \div 2 + 1)))

\* f"{Series.std():.2f}" of a column of whole numbers: the sample standard
\* deviation (ddof = 1), which pandas gives as NaN for fewer than two values.
\* The variance is ssq / den; q is the integer part of 40000 * ssq / den.
std_2f(s) ==
    LET n   == Len(s)
        ssq == n * Sum(Products(s, s)) - Sum(s) * Sum(s)
        den == n * (n - 1)
        q   == 40000 * (ssq \div den) + (40000 * (ssq % den)) \div den
    IN  IF n < 2 THEN NaN
        ELSE Num(RoundSqrt(0, 100 * (SeqMax(s) - SeqMin(s)) + 1, q))

\* the Data Summary section of app.layout
DataSummary(d) ==
    << P(<<"Number of unique patients", nunique(Column(d, ColID))>>, NoStyle),
       P(<<"Mean Age", mean_2f(Column(d, ColAge))>>, NoStyle),
       P(<<"Median Hemoglobin", median_2f(Column(d, Hgb))>>, NoStyle),
       P(<<"Standard Deviation Platelet Count", std_2f(Column(d, Plt))>>, NoStyle) >>

-----------------------------------------------------------------------------
(* Exact rationals <<num, den>>, den > 0, in lowest terms *)

Abs(i) == IF i < 0 THEN -i ELSE i

RECURSIVE GCD(_, _)
GCD(a, b) == IF b = 0 THEN a ELSE GCD(b, a % b)

Rat(num, den) ==
    LET g == GCD(Abs(num), den)
    IN  <<num \div g, den \div g>>

RMul(a, b) ==
    LET g1 == GCD(Abs(a[1]), b[2])
        g2 == GCD(Abs(b[1]), a[2])
    IN  <<(a[1] \div g1) * (b[1] \div g2), (a[2] \div g2) * (b[2] \div g1)>>

RAdd(a, b) ==
    LET g == GCD(a[2], b[2])
    IN  Rat(a[1] * (b[2] \div g) + b[1] * (a[2] \div g), (a[2] \div g) * b[2])

-----------------------------------------------------------------------------
(* Trend estimator: statsmodels and numpy as update_scatter_plot uses them *)

\* np.linspace(..., 100)
Samples == 100

\* np.ptp(s) == 0.0 and np.any(s != 0.0): the test by which add_constant
\* takes a column for a constant already present.  On an empty column
\* np.ptp raises, which add_constant takes for "no".
is_const(s) ==
    /\ Len(s) > 0
    /\ SeqMax(s) = SeqMin(s)
    /\ \E i \in 1..Len(s) : s[i] # 0

\* sm.add_constant(df[x_variable]), has_constant = 'skip': the names of the
\* columns of the design matrix X
add_constant(s, x_variable) ==
    IF is_const(s) THEN <<x_variable>> ELSE <<"const", x_variable>>

\* a fit that takes the mean of y for the intercept
ols_params_mean_intercept(y, x, X, x_variable) ==
    LET n   == Len(x)
        Sx  == Sum(x)
        Sy  == Sum(y)
        Sxx == n * Sum(Products(x, x)) - Sx * Sx
        Sxy == n * Sum(Products(x, y)) - Sx * Sy
    IN  IF X = <<x_variable>>
        THEN (x_variable :> Rat(Sum(Products(x, y)), Sum(Products(x, x))))
        ELSE IF Sxx = 0
        THEN ("const" :> Rat(Sy, n)) @@ (x_variable :> <<0, 1>>)
        ELSE ("const" :> Rat(Sy, n)) @@ (x_variable :> Rat(Sxy, Sxx))

\* sm.OLS(y, X).fit().params: the least-squares solution the pseudo-inverse
\* gives, as a mapping from the columns of X to exact rationals
ols_params(y, x, X, x_variable) ==
    LET n   == Len(x)
        Sx  == Sum(x)
        Sy  == Sum(y)
        Sxx == n * Sum(Products(x, x)) - Sx * Sx
        Sxy == n * Sum(Products(x, y)) - Sx * Sy
    IN  IF X = <<x_variable>>
        THEN (x_variable :> Rat(Sum(Products(x, y)), Sum(Products(x, x))))
        ELSE IF Sxx = 0
        THEN ("const" :> Rat(Sy, n)) @@ (x_variable :> <<0, 1>>)
        ELSE ("const" :> Rat(Sy * Sxx - Sxy * Sx, n * Sxx)) @@
             (x_variable :> Rat(Sxy, Sxx))

\* np.linspace(start, stop, num)
linspace(start, stop, num) ==
    [k \in 1..num |-> Rat((num - 1) * start + (k - 1) * (stop - start), num - 1)]

\* const + slope * x_range, elementwise
trend_y(const, slope, x_range) ==
    [k \in 1..Len(x_range) |-> RAdd(const, RMul(slope, x_range[k]))]

-----------------------------------------------------------------------------
(* What a callback gives back to Dash: a value, or an exception it let     *)
(* escape (Dash answers that request with an error and keeps serving).     *)

NoFigure == [title |-> <<>>, data |-> <<>>]

ReturnP(p) == [exc |-> "", kind |-> "P", children |-> <<p>>, figure |-> NoFigure]

ReturnList(ps) == [exc |-> "", kind |-> "list", children |-> ps, figure |-> NoFigure]

ReturnFigure(f) == [exc |-> "", kind |-> "figure", children |-> <<>>, figure |-> f]

Raise(e) == [exc |-> e, kind |-> "none", children |-> <<>>, figure |-> NoFigure]

NoRet == [exc |-> "", kind |-> "none", children |-> <<>>, figure |-> NoFigure]

-----------------------------------------------------------------------------
(* Callback display_patient_details *)

MsgPrompt == "Enter a Patient ID and click 'Search' to view details"

MsgInvalid == "Enter a valid Patient ID to view details"

MsgNotFound == "Patient ID not found"

IsPrefix(s, t) == Len(s) <= Len(t) /\ SubSeq(t, 1, Len(s)) = s

\* a mask that also takes the identifiers that start with patient_id
id_mask_prefix(d, patient_id) == [i \in 1..Len(d) |-> IsPrefix(patient_id, d[i][ColID])]

\* df['Patient ID'] == patient_id: the boolean mask, by exact equality
id_mask(d, patient_id) == [i \in 1..Len(d) |-> d[i][ColID] = patient_id]

\* df[mask]: the rows whose mask entry is true, in the order of df
RECURSIVE bool_index(_, _)
bool_index(d, mask) ==
    IF d = <<>> THEN <<>>
    ELSE IF mask[1] THEN <<d[1]>> \o bool_index(Tail(d), Tail(mask))
    ELSE bool_index(Tail(d), Tail(mask))

\* an inner loop that puts the style on the other branch
param_entry_flipped(row, param) ==
    IF is_within_healthy_range(row[param], param)
    THEN P(<<param, row[param]>>, RedStyle)
    ELSE P(<<param, row[param]>>, NoStyle)

\* one pass of the inner loop over numeric_columns
param_entry(row, param) ==
    IF is_within_healthy_range(row[param], param)
    THEN P(<<param, row[param]>>, NoStyle)
    ELSE P(<<param, row[param]>>, RedStyle)

\* one pass of the outer loop over the matching rows
row_entries(row) ==
    << P(<<ColID, row[ColID]>>, NoStyle),
       P(<<ColAge, row[ColAge]>>, NoStyle),
       P(<<ColGender, row[ColGender]>>, NoStyle) >>
    \o [k \in 1..Len(numeric_columns) |-> param_entry(row, numeric_columns[k])]

RECURSIVE details_of(_)
details_of(rows) ==
    IF rows = <<>> THEN <<>>
    ELSE row_entries(rows[1]) \o details_of(Tail(rows))

\* row[param] or healthy_ranges[parameter] finds no such key
details_key_error(rows) ==
    \E i \in 1..Len(rows), k \in 1..Len(numeric_columns) :
        \/ numeric_columns[k] \notin DOMAIN rows[i]
        \/ numeric_columns[k] \notin DOMAIN healthy_ranges

\* a callback that looks at the text box before the click count
display_text_first(n_clicks, patient_id) ==
    IF ~TruthyText(patient_id) THEN ReturnP(P(MsgInvalid, NoStyle))
    ELSE IF ~TruthyInt(n_clicks) THEN ReturnP(P(MsgPrompt, NoStyle))
    ELSE LET patient_details == bool_index(df, id_mask(df, patient_id[1]))
         IN  IF Len(patient_details) = 0 THEN ReturnP(P(MsgNotFound, NoStyle))
             ELSE IF details_key_error(patient_details) THEN Raise("KeyError")
             ELSE ReturnList(details_of(patient_details))

display_patient_details(n_clicks, patient_id) ==
    IF ~TruthyInt(n_clicks) THEN ReturnP(P(MsgPrompt, NoStyle))
    ELSE IF ~TruthyText(patient_id) THEN ReturnP(P(MsgInvalid, NoStyle))
    ELSE LET patient_details == bool_index(df, id_mask(df, patient_id[1]))
         IN  IF Len(patient_details) = 0 THEN ReturnP(P(MsgNotFound, NoStyle))
             ELSE IF details_key_error(patient_details) THEN Raise("KeyError")
             ELSE ReturnList(details_of(patient_details))

-----------------------------------------------------------------------------
(* Callback update_scatter_plot *)

Trace(type, x, y, mode, name) ==
    [type |-> type, x |-> x, y |-> y, mode |-> mode, name |-> name]

\* df[name] finds no such column (None is never a column)
no_column(d, name) == name = None \/ \E i \in 1..Len(d) : name[1] \notin DOMAIN d[i]

\* px.scatter(df) with neither x nor y takes df as wide-form data and
\* refuses columns of different types (texts beside numbers)
px_scatter_raises(d, x_variable, y_variable) ==
    x_variable = None /\ y_variable = None /\ Len(d) > 0

\* an add_constant that inserts the constant column into df itself
df_with_const_column(d, x_variable) == [i \in 1..Len(d) |-> ("const" :> 1) @@ d[i]]

\* the frame df holds after sm.add_constant(df[x_variable]), which builds
\* X as a new frame
df_after_add_constant(d, x_variable) == d

scatter_figure(d, x_variable, y_variable, params) ==
    LET x       == Column(d, x_variable[1])
        y       == Column(d, y_variable[1])
        x_range == linspace(SeqMin(x), SeqMax(x), Samples)
        y_range == trend_y(params["const"], params[x_variable[1]], x_range)
    IN  [title |-> <<x_variable, y_variable>>,
         data  |-> << Trace("scatter", x, y, "markers", ""),
                      Trace("scatter", x_range, y_range, "lines", "Trendline") >>]

update_scatter_plot(x_variable, y_variable) ==
    IF px_scatter_raises(df, x_variable, y_variable) THEN Raise("ValueError")
    ELSE IF no_column(df, x_variable) THEN Raise("KeyError")
    ELSE IF no_column(df, y_variable) THEN Raise("KeyError")
    ELSE IF Len(df) = 0 THEN Raise("ValueError")
    ELSE LET x      == Column(df, x_variable[1])
             y      == Column(df, y_variable[1])
             X      == add_constant(x, x_variable[1])
             params == ols_params(y, x, X, x_variable[1])
         IN  IF "const" \notin DOMAIN params THEN Raise("KeyError")
             ELSE ReturnFigure(scatter_figure(df, x_variable, y_variable, params))

-----------------------------------------------------------------------------
(* Callback update_bar_chart *)

\* px.bar(df, x='Age', y=y_variable); with y None the bars carry no y
update_bar_chart(y_variable) ==
    LET y == IF y_variable = None THEN <<>> ELSE Column(df, y_variable[1])
    IN  ReturnFigure([title |-> <<y_variable, Some(ColAge)>>,
                      data  |-> << Trace("bar", Column(df, ColAge), y, "", "") >>])

-----------------------------------------------------------------------------
(* Requests the presentation layer can deliver *)

ClickValues == { None } \cup { Some(k) : k \in 0..MaxClicks }

TextValues == { None, Some(<<>>), Some(<<" ">>), Some(IdP1), Some(IdP10), Some(IdP2) }

\* a dropdown holds one of its options, or None once its selection is cleared
DropdownValues == { None } \cup { Some(numeric_columns_literal[k]) : k \in 1..Len(numeric_columns_literal) }

Call(cb, n_clicks, patient_id, x_variable, y_variable) ==
    [cb |-> cb, n_clicks |-> n_clicks, patient_id |-> patient_id,
     x_variable |-> x_variable, y_variable |-> y_variable]

NoCall == Call("", None, None, None, None)

-----------------------------------------------------------------------------
(* The server *)

Init(W, rows) ==
    /\ df \in Datasets(rows)
    /\ numeric_columns = numeric_columns_literal
    /\ healthy_ranges = DictOf(healthy_ranges_literal)
    /\ layout = DataSummary(df)
    /\ pc = [w \in W |-> "idle"]
    /\ call = [w \in W |-> NoCall]
    /\ ret = [w \in W |-> NoRet]

\* the browser posts the search button's click count and the text box
ClickSearch(w) ==
    /\ pc[w] = "idle"
    /\ \E n \in ClickValues, t \in TextValues :
           call' = [call EXCEPT ![w] = Call("display_patient_details", n, t, None, None)]
    /\ pc' = [pc EXCEPT ![w] = "pending"]
    /\ UNCHANGED <<shared, layout, ret>>

\* the browser posts the two scatter dropdowns
SelectScatter(w) ==
    /\ pc[w] = "idle"
    /\ \E x \in DropdownValues, y \in DropdownValues :
           call' = [call EXCEPT ![w] = Call("update_scatter_plot", None, None, x, y)]
    /\ pc' = [pc EXCEPT ![w] = "pending"]
    /\ UNCHANGED <<shared, layout, ret>>

\* the browser posts the bar chart dropdown
SelectBar(w) ==
    /\ pc[w] = "idle"
    /\ \E y \in DropdownValues :
           call' = [call EXCEPT ![w] = Call("update_bar_chart", None, None, None, y)]
    /\ pc' = [pc EXCEPT ![w] = "pending"]
    /\ UNCHANGED <<shared, layout, ret>>

RunDisplay(w) ==
    /\ pc[w] = "pending"
    /\ call[w].cb = "display_patient_details"
    /\ ret' = [ret EXCEPT ![w] = display_patient_details(call[w].n_clicks, call[w].patient_id)]
    /\ pc' = [pc EXCEPT ![w] = "done"]
    /\ UNCHANGED <<shared, layout, call>>

RunScatter(w) ==
    /\ pc[w] = "pending"
    /\ call[w].cb = "update_scatter_plot"
    /\ ret' = [ret EXCEPT ![w] = update_scatter_plot(call[w].x_variable, call[w].y_variable)]
    /\ df' = IF no_column(df, call[w].x_variable) THEN df
             ELSE df_after_add_constant(df, call[w].x_variable)
    /\ pc' = [pc EXCEPT ![w] = "done"]
    /\ UNCHANGED <<numeric_columns, healthy_ranges, layout, call>>

RunBar(w) ==
    /\ pc[w] = "pending"
    /\ call[w].cb = "update_bar_chart"
    /\ ret' = [ret EXCEPT ![w] = update_bar_chart(call[w].y_variable)]
    /\ pc' = [pc EXCEPT ![w] = "done"]
    /\ UNCHANGED <<shared, layout, call>>

\* the response leaves the worker, which is free again
Respond(w) ==
    /\ pc[w] = "done"
    /\ pc' = [pc EXCEPT ![w] = "idle"]
    /\ call' = [call EXCEPT ![w] = NoCall]
    /\ ret' = [ret EXCEPT ![w] = NoRet]
    /\ UNCHANGED <<shared, layout>>

Next ==
    \/ \E w \in DOMAIN pc : ClickSearch(w)
    \/ \E w \in DOMAIN pc : SelectScatter(w)
    \/ \E w \in DOMAIN pc : SelectBar(w)
    \/ \E w \in DOMAIN pc : RunDisplay(w)
    \/ \E w \in DOMAIN pc : RunScatter(w)
    \/ \E w \in DOMAIN pc : RunBar(w)
    \/ \E w \in DOMAIN pc : Respond(w)

\* one worker: requests are served one after the other
InitSequential == Init({"w1"}, MaxRows)

Spec == InitSequential /\ [][Next]_vars

\* two workers: requests overlap in every order
InitConcurrent == Init({"w1", "w2"}, MaxRowsConcurrent)

SpecConcurrent == InitConcurrent /\ [][Next]_vars

-----------------------------------------------------------------------------
(* Properties of display_patient_details and the range classifier *)

Served(w, cb) == pc[w] = "done" /\ call[w].cb = cb

\* a served search that got as far as the lookup
LookedUp(w) ==
    /\ Served(w, "display_patient_details")
    /\ call[w].n_clicks \notin { None, Some(0) }
    /\ call[w].patient_id \notin { None, Some(<<>>) }

\* the rows of df a search for id is to show
RowsOf(id) == SelectSeq(df, LAMBDA r : r[ColID] = id)

\* a served search that shows a detail list
ShowsList(w) == Served(w, "display_patient_details") /\ ret[w].kind = "list"

EntriesPerRow == 3 + Len(numeric_columns)

\* the j-th entry of the b-th row shown
Entry(w, b, j) == ret[w].children[EntriesPerRow * (b - 1) + j]

\* C1: is_within_healthy_range(v, p) is true exactly when min(p) <= v <= max(p),
\* both ends included: every lab value a served search classified -- shown plain
\* when classified within, red when not -- is plain exactly when it lies in the
\* configured closed interval, and for hemoglobin 11.9 is out, 12.0 and 16.5 are
\* in, 16.6 is out.
C1_InclusiveRange ==
    \A w \in DOMAIN pc :
        ShowsList(w) =>
            \A b \in 1..Len(RowsOf(call[w].patient_id[1])), k \in 1..Len(numeric_columns) :
                LET p == numeric_columns[k]
                    v == RowsOf(call[w].patient_id[1])[b][p]
                    e == Entry(w, b, 3 + k)
                IN  /\ (e.style = NoStyle) <=>
                           (healthy_ranges[p][1] <= v /\ v <= healthy_ranges[p][2])
                    /\ (p = Hgb /\ v \in {119, 166}) => e.style = RedStyle
                    /\ (p = Hgb /\ v \in {120, 165}) => e.style = NoStyle

\* a search has shown hemoglobin 11.9 in red and hemoglobin 12.0 plain
C1_Witness ==
    \E w \in DOMAIN pc :
        /\ ShowsList(w)
        /\ \E i, j \in 1..Len(ret[w].children) :
               /\ ret[w].children[i] = P(<<Hgb, 119>>, RedStyle)
               /\ ret[w].children[j] = P(<<Hgb, 120>>, NoStyle)

\* C2: a lookup finds every row whose identifier equals the one given, no row
\* that only resembles it, in dataset order; no match is the plain message
\* "Patient ID not found"; every matching row is shown, in dataset order.
C2_ExactLookupInOrder ==
    \A w \in DOMAIN pc :
        LookedUp(w) =>
            LET rows == RowsOf(call[w].patient_id[1])
            IN  /\ ret[w].exc = ""
                /\ Len(rows) = 0 => ret[w] = ReturnP(P(MsgNotFound, NoStyle))
                /\ Len(rows) > 0 =>
                       /\ ret[w].kind = "list"
                       /\ Len(ret[w].children) = EntriesPerRow * Len(rows)
                       /\ \A b \in 1..Len(rows) :
                              /\ Entry(w, b, 1).children = <<ColID, call[w].patient_id[1]>>
                              /\ Entry(w, b, 2).children = <<ColAge, rows[b][ColAge]>>
                              /\ Entry(w, b, 3).children = <<ColGender, rows[b][ColGender]>>
                              /\ \A k \in 1..Len(numeric_columns) :
                                     Entry(w, b, 3 + k).children[2] = rows[b][numeric_columns[k]]

\* a search for P1 has shown two rows that differ, while df also holds a row of P10
C2_Witness ==
    \E w \in DOMAIN pc :
        /\ LookedUp(w)
        /\ call[w].patient_id = Some(IdP1)
        /\ Len(ret[w].children) = 2 * EntriesPerRow
        /\ Entry(w, 1, 2) # Entry(w, 2, 2)
        /\ \E i \in 1..Len(df) : df[i][ColID] = IdP10

\* C3: display_patient_details answers with exactly one of four outcomes, tried
\* in this order: the search prompt when the button was never clicked (n_clicks
\* None or 0), whatever the text; else the valid-ID prompt when the text is
\* missing or empty; else "Patient ID not found" when no row has the identifier;
\* else the detail list.  None of them is an error.
C3_FourOutcomesInOrder ==
    \A w \in DOMAIN pc :
        Served(w, "display_patient_details") =>
            /\ ret[w].exc = ""
            /\ IF call[w].n_clicks \in { None, Some(0) }
               THEN ret[w] = ReturnP(P(MsgPrompt, NoStyle))
               ELSE IF call[w].patient_id \in { None, Some(<<>>) }
               THEN ret[w] = ReturnP(P(MsgInvalid, NoStyle))
               ELSE IF \A i \in 1..Len(df) : df[i][ColID] # call[w].patient_id[1]
               THEN ret[w] = ReturnP(P(MsgNotFound, NoStyle))
               ELSE ret[w].kind = "list" /\ Len(ret[w].children) > 0

\* the button was never clicked and the text box is empty: the search prompt
\* is shown, not the valid-ID prompt
C3_Witness ==
    \E w \in DOMAIN pc :
        /\ Served(w, "display_patient_details")
        /\ call[w].n_clicks = None
        /\ call[w].patient_id = Some(<<>>)
        /\ ret[w] = ReturnP(P(MsgPrompt, NoStyle))

\* C8: every parameter of numeric_columns has exactly one entry in the healthy
\* range table, an interval with min <= max, so no search ever fails on an
\* unknown parameter.
C8_EveryParameterHasOneRange ==
    /\ \A k \in 1..Len(numeric_columns) :
           LET p == numeric_columns[k]
           IN  /\ p \in DOMAIN healthy_ranges
               /\ Cardinality({ j \in 1..Len(healthy_ranges_literal) :
                                    healthy_ranges_literal[j][1] = p }) = 1
               /\ healthy_ranges[p][1] <= healthy_ranges[p][2]
    /\ \A w \in DOMAIN pc :
           Served(w, "display_patient_details") => ret[w].exc = ""

\* a search has run the loop over numeric_columns for a found patient
C8_Witness ==
    \E w \in DOMAIN pc :
        /\ ShowsList(w)
        /\ Len(ret[w].children) >= EntriesPerRow
        /\ Entry(w, 1, EntriesPerRow).children[1] = numeric_columns[Len(numeric_columns)]

\* C10: in the detail list every matching row gives seven entries in the order
\* Patient ID, Age, Gender, then the parameters of numeric_columns in list
\* order; a parameter entry is red exactly when is_within_healthy_range is
\* false for its value; the other entries are never red.
C10_SevenEntriesRedIffOutOfRange ==
    \A w \in DOMAIN pc :
        ShowsList(w) =>
            LET n == Cardinality({ i \in 1..Len(df) : df[i][ColID] = call[w].patient_id[1] })
            IN  /\ EntriesPerRow = 7
                /\ Len(ret[w].children) = 7 * n
                /\ \A b \in 1..n :
                       /\ Entry(w, b, 1).children[1] = ColID
                       /\ Entry(w, b, 2).children[1] = ColAge
                       /\ Entry(w, b, 3).children[1] = ColGender
                       /\ \A j \in 1..3 : Entry(w, b, j).style = NoStyle
                       /\ \A k \in 1..4 :
                              LET e == Entry(w, b, 3 + k)
                              IN  /\ e.children[1] = numeric_columns[k]
                                  /\ e.style \in { NoStyle, RedStyle }
                                  /\ (e.style = RedStyle) <=>
                                         ~is_within_healthy_range(e.children[2], numeric_columns[k])

\* a search has shown a row with a red entry and a plain parameter entry
C10_Witness ==
    \E w \in DOMAIN pc :
        /\ ShowsList(w)
        /\ \E j, k \in 4..7 :
               /\ Entry(w, 1, j).style = RedStyle
               /\ Entry(w, 1, k).style = NoStyle

-----------------------------------------------------------------------------
(* Properties of the trend estimator *)

\* a served scatter request whose two dropdowns hold columns
FitAsked(w) ==
    /\ Served(w, "update_scatter_plot")
    /\ call[w].x_variable # None
    /\ call[w].y_variable # None

XValues(w) == Column(df, call[w].x_variable[1])

YValues(w) == Column(df, call[w].y_variable[1])

AllEqual(s) == \A i, j \in 1..Len(s) : s[i] = s[j]

\* the points lie on y = a0 + b0 * x, without noise
OnLine(w, a0, b0) == \A i \in 1..Len(df) : YValues(w)[i] = a0 + b0 * XValues(w)[i]

Trendline(w) == ret[w].figure.data[2]

\* C4: a fit on x-values of zero length, or all equal, fails with an explicit
\* InvalidInputError, and gives no trend result.
C4_DegenerateFitIsInvalidInput ==
    \A w \in DOMAIN pc :
        (FitAsked(w) /\ AllEqual(XValues(w))) =>
            ret[w].exc = "InvalidInputError" /\ ret[w].kind # "figure"

\* C9: when the points lie on y = a0 + b0 * x and the x-values are not all
\* equal, the fitted intercept and slope are a0 and b0, the figure carries 100
\* trendline samples whose x run from min(x) to max(x) without going back, and
\* every sample satisfies y = a0 + b0 * x.
C9_TrendRoundTrip ==
    \A w \in DOMAIN pc :
        \A a0, b0 \in (-MaxCoef)..MaxCoef :
            (FitAsked(w) /\ ~AllEqual(XValues(w)) /\ OnLine(w, a0, b0)) =>
                LET x      == XValues(w)
                    xname  == call[w].x_variable[1]
                    params == ols_params(YValues(w), x, add_constant(x, xname), xname)
                    t      == Trendline(w)
                IN  /\ params = ("const" :> <<a0, 1>>) @@ (xname :> <<b0, 1>>)
                    /\ ret[w].exc = ""
                    /\ ret[w].kind = "figure"
                    /\ Len(t.x) = 100 /\ Len(t.y) = 100
                    /\ t.x[1] = <<SeqMin(x), 1>>
                    /\ t.x[100] = <<SeqMax(x), 1>>
                    /\ \A k \in 1..99 : t.x[k][1] * t.x[k + 1][2] < t.x[k + 1][1] * t.x[k][2]
                    /\ \A k \in 1..100 :
                           t.y[k][1] * t.x[k][2] = (a0 * t.x[k][2] + b0 * t.x[k][1]) * t.y[k][2]

\* platelets were fitted on white cells, which differ between rows, and the
\* points lie on y = 2 + 3 * x
C9_Witness ==
    \E w \in DOMAIN pc :
        /\ FitAsked(w)
        /\ call[w].x_variable = Some(Wbc)
        /\ call[w].y_variable = Some(Plt)
        /\ ~AllEqual(XValues(w))
        /\ OnLine(w, 2, 3)
        /\ ret[w].kind = "figure"

-----------------------------------------------------------------------------
(* Properties of the layout and of the server as a whole *)

\* C5: on a dataset of zero rows the mean age, the median and the standard
\* deviation are not displayed as NaN.
C5_EmptyDatasetShowsNoNaN ==
    Len(df) = 0 => \A j \in 2..4 : ~layout[j].children[2].nan

\* C6: no request changes df, healthy_ranges or numeric_columns, whatever the
\* requests and however they overlap, and two requests with the same arguments
\* get the same answer whatever ran beside them.
C6_SharedStateNeverChanges ==
    /\ [][df' = df /\ healthy_ranges' = healthy_ranges /\ numeric_columns' = numeric_columns]_vars
    /\ [](\A v, w \in DOMAIN pc :
              (pc[v] = "done" /\ pc[w] = "done" /\ call[v] = call[w]) => ret[v] = ret[w])

\* one worker has served a scatter request that failed after add_constant
\* ran, while the other has served a search that shows a patient
C6_Witness ==
    \E v, w \in DOMAIN pc :
        /\ FitAsked(v)
        /\ ret[v].exc # ""
        /\ ShowsList(w)

\* C7: no callback ends with an exception it did not handle.
C7_NoUnhandledException ==
    \A w \in DOMAIN pc : pc[w] = "done" => ret[w].exc = ""

====
